---- MODULE Spec2Model ----
(***************************************************************************)
(* The debate orchestration engine of the Agentic Personal Assistant team. *)
(*                                                                         *)
(* Modelled: the HTTP start endpoint (backend/app.py, start_debate and its *)
(* event_generator) and the engine behind it (backend/services/            *)
(* agent_orchestrator.py, AgentOrchestrator.start_debate,                  *)
(* _run_turn_based_debate and generate_debate_summary).                    *)
(*                                                                         *)
(* The server is a single asyncio event loop: a coroutine runs without     *)
(* interruption from one suspension point (await / yield) to the next.     *)
(* Each action below is one such uninterrupted segment of one request.     *)
(* Suspension points of a run: the generation call, the yield of an event  *)
(* to the consumer, the 0.5 s sleep, the summary generation call.          *)
(*                                                                         *)
(* Environment: a generation call returns a text or raises; the consumer   *)
(* of a stream may disconnect at any suspension point (the pending await   *)
(* then raises CancelledError, a BaseException that no `except Exception`  *)
(* of the code catches).  The wall clock is taken to be monotone: every   *)
(* completed await (a generation call, the sleep) moves it on by one unit. *)
(* Writes to the storage collaborator succeed, except under StorageSpec,    *)
(* where the commit of a contribution's row may raise.                     *)
(***************************************************************************)
EXTENDS Integers, Sequences, FiniteSets, TLC

\* ---------------------------------------------------------------- bounds
\* Largest max_turns a session of the model is created with.
MaxTurnsBound == 2
\* Ids of the agents of the profile, and the participant lists a session of
\* the model declares.
AgentPool == {1, 2, 3}
DeclaredLists == {<<1, 2>>, <<3, 1, 2>>}
\* Concurrent HTTP start requests for the one session.
Requests == {1, 2}

VARIABLES
    db_agents,     \* ids of the rows of table agents
    session,       \* the DebateSession row
    db_messages,   \* the DebateMessage rows of the session, in insertion order
    now,           \* the wall clock, read by datetime.utcnow()
    pc,            \* per request: where its coroutine is suspended
    state,         \* per request: the DebateState of its run
    agent_idx,     \* per request: index of the inner loop (0-based)
    calls,         \* per request: the generation calls issued by the turn loop
    summary_calls, \* per request: generation calls issued by the summary step
    stream,        \* per request: the events handed to the consumer
    pauses,        \* per request: the asyncio.sleep(0.5) pauses entered
    summary,       \* per request: event_generator's local `summary`
    agent_prompt,  \* system_prompt_raw of each row of table agents, as loaded
    agent_provider,\* model_provider of each row of table agents
    fn,            \* the function or endpoint applied to arg ("none": not yet)
    arg,           \* an input of a function of the parser or of an endpoint
    result         \* what it returned

vars == <<db_agents, session, db_messages, now, pc, state, agent_idx, calls,
          summary_calls, stream, pauses, summary, agent_prompt, agent_provider,
          fn, arg, result>>

\* The tables and the requests: what a function of the parser or of the
\* conversation window neither reads nor writes.
run_vars == <<db_agents, session, db_messages, now, pc, state, agent_idx, calls,
              summary_calls, stream, pauses, summary, agent_prompt, agent_provider>>

\* ------------------------------------------------------------ data shapes
\* A nullable DateTime column: <<>> is NULL, <<t>> is the time t.
NullTime == <<>>

DebateFormats == {"turn_based", "moderated", "free_form"}

\* Python values, tagged with their type.  A text is a sequence of tokens
\* (characters, or units of markup and whitespace); "" is <<>>.
None == [kind |-> "none"]
Str(text) == [kind |-> "str", text |-> text]
Num(n) == [kind |-> "int", num |-> n]
List(elems) == [kind |-> "list", elems |-> elems]
Dict(items) == [kind |-> "dict", items |-> items]

\* bool(v)
Truthy(v) ==
    CASE v.kind = "none" -> FALSE
      [] v.kind = "str" -> v.text # <<>>
      [] v.kind = "int" -> v.num # 0
      [] v.kind = "list" -> v.elems # <<>>
      [] v.kind = "dict" -> DOMAIN v.items # {}

\* A raw template is taken by what yaml.safe_load makes of it: a YAMLError, or
\* the document it loads.
NotYaml == [yaml |-> "error"]
Yaml(doc) == [yaml |-> "ok", doc |-> doc]

\* A raw template whose system prompt is the text t.
RawTemplateOf(t) ==
    Yaml(Dict([agent |-> Dict([name |-> Str(<<"Ada">>), role |-> Str(<<"advisor">>),
                               system_prompt |-> Str(t)])]))

\* What a call comes to: a returned value, or a raised exception.
Return(v) == [raised |-> "none", value |-> v]
Raise(class, message) == [raised |-> class, message |-> message]

\* The orders in which the elements of S can be listed.
RECURSIVE Perms(_)
Perms(S) ==
    IF S = {} THEN {<<>>}
    ELSE UNION {{<<x>> \o p : p \in Perms(S \ {x})} : x \in S}

Range(s) == {s[i] : i \in 1..Len(s)}

\* db.query(Agent).filter(Agent.id.in_(agent_ids)).all(): the rows whose id is
\* in agent_ids; no ORDER BY, so the row order is the storage's choice.
QueryAgents(agent_ids, rows) == Perms(Range(agent_ids) \cap rows)

\* if len(agents) < 2: raise ValueError
EnoughAgentsOne(found) == Len(found) >= 1
EnoughAgents(found) == Len(found) >= 2

\* message_data: the dict yielded for a contribution (it has no "type" key).
TurnEvent(agent_id, turn, ts) ==
    [agent_id |-> agent_id, turn |-> turn, timestamp |-> ts]

\* DebateMessage(debate_session_id, agent_id, content, turn_number, ...)
DebateMessage(agent_id, turn) == [agent_id |-> agent_id, turn_number |-> turn]

SummaryEvent(data) == [type |-> "summary", data |-> data]
CompleteEvent == [type |-> "complete"]
ErrorEvent(message) == [type |-> "error", message |-> message]

\* The event_generator's except branch: one error event ends the stream.
OnExceptionBoth(s, message) == s \o <<ErrorEvent(message), CompleteEvent>>
OnException(s, message) == Append(s, ErrorEvent(message))

\* The two nested for loops: the step after (turn, idx) with n participants.
NextPositionSameTurn(turn, idx, n) == [turn |-> turn, idx |-> (idx + 1) % n]
NextPositionTurnFirst(turn, idx, n) ==
    [turn |-> turn + 1, idx |-> IF idx + 1 < n THEN idx + 1 ELSE 0]
NextPosition(turn, idx, n) ==
    IF idx + 1 < n THEN [turn |-> turn, idx |-> idx + 1]
    ELSE [turn |-> turn + 1, idx |-> 0]

\* except Exception: print(...); continue -- go on with the next participant.
AfterExceptionRetry(turn, idx, n, max_turns) == [turn |-> turn, idx |-> idx]
AfterExceptionBreak(turn, idx, n, max_turns) == [turn |-> max_turns, idx |-> 0]
AfterException(turn, idx, n, max_turns) == NextPosition(turn, idx, n)

\* session.status = "completed" after the turn loop.
StatusAfterLoopActive == "active"
StatusAfterLoop == "completed"

\* ------------------------------------------------------ the prompt parser
TagNames == <<"persona", "context", "behavior", "constraints", "examples", "format">>

\* The tokens <tag> and </tag>, in any letter case (re.IGNORECASE).
OpenTag ==
    [persona |-> {"<persona>", "<PERSONA>"}, context |-> {"<context>", "<CONTEXT>"},
     behavior |-> {"<behavior>", "<BEHAVIOR>"},
     constraints |-> {"<constraints>", "<CONSTRAINTS>"},
     examples |-> {"<examples>", "<EXAMPLES>"}, format |-> {"<format>", "<FORMAT>"}]
CloseTag ==
    [persona |-> {"</persona>", "</PERSONA>"}, context |-> {"</context>", "</CONTEXT>"},
     behavior |-> {"</behavior>", "</BEHAVIOR>"},
     constraints |-> {"</constraints>", "</CONSTRAINTS>"},
     examples |-> {"</examples>", "</EXAMPLES>"}, format |-> {"</format>", "</FORMAT>"}]

Whitespace == {" ", "\n"}

\* str.strip()
RECURSIVE LStrip(_)
LStrip(t) == IF t # <<>> /\ t[1] \in Whitespace THEN LStrip(Tail(t)) ELSE t
RECURSIVE RStrip(_)
RStrip(t) ==
    IF t # <<>> /\ t[Len(t)] \in Whitespace THEN RStrip(SubSeq(t, 1, Len(t) - 1))
    ELSE t
StripLeft(t) == LStrip(t)
Strip(t) == RStrip(LStrip(t))

\* re.search('<tag>(.*?)</tag>', text, DOTALL | IGNORECASE): the leftmost <tag>
\* with a </tag> after it, and the nearest such </tag>; <<>> when none.
TagSearch(text, tag) ==
    LET starts == {i \in 1..Len(text) :
                      /\ text[i] \in OpenTag[tag]
                      /\ \E j \in (i + 1)..Len(text) : text[j] \in CloseTag[tag]}
    IN IF starts = {} THEN <<>>
       ELSE LET i == CHOOSE x \in starts : \A y \in starts : x <= y
                ends == {j \in (i + 1)..Len(text) : text[j] \in CloseTag[tag]}
                j == CHOOSE x \in ends : \A y \in ends : x <= y
            IN <<i, j>>

\* _parse_xml_tags: the stripped group of every tag that matches, and full_text.
ParseXmlTags(text) ==
    LET found == {TagNames[n] : n \in {m \in 1..Len(TagNames) :
                                          TagSearch(text, TagNames[m]) # <<>>}}
    IN [k \in found \cup {"full_text"} |->
          IF k = "full_text" THEN Str(text)
          ELSE LET m == TagSearch(text, k)
               IN Str(Strip(SubSeq(text, m[1] + 1, m[2] - 1)))]

\* yaml.safe_load(raw_prompt)
SafeLoad(raw) ==
    IF raw.yaml = "error" THEN Raise("YAMLError", <<"could not find expected ':'">>)
    ELSE Return(raw.doc)

\* `key in container`
In(key, container) ==
    CASE container.kind = "dict" -> Return(key \in DOMAIN container.items)
      [] container.kind = "list" ->
            Return(\E i \in 1..Len(container.elems) : container.elems[i] = Str(<<key>>))
      [] container.kind = "str" ->
            Return(\E i \in 1..Len(container.text) : container.text[i] = key)
      [] OTHER -> Raise("TypeError", <<"argument of type '", container.kind,
                                      "' is not iterable">>)

RequiredFields == <<"name", "role", "system_prompt">>
FieldName == [name |-> "agent.name", role |-> "agent.role",
              system_prompt |-> "agent.system_prompt"]

\* The body of the try block of parse.
ParseBody(raw) ==
    LET loaded == SafeLoad(raw)
    IN IF loaded.raised # "none" THEN loaded
       ELSE LET prompt_data == loaded.value
       IN IF prompt_data.kind # "dict"
          THEN Raise("PromptParseError", <<"Prompt must be a YAML dictionary">>)
          ELSE IF "agent" \notin DOMAIN prompt_data.items
          THEN Raise("PromptParseError", <<"Missing required 'agent' section">>)
          ELSE LET agent_data == prompt_data.items["agent"]
                   probe == In("name", agent_data)
          IN IF probe.raised # "none" THEN probe
             ELSE LET missing == {n \in 1..Len(RequiredFields) :
                                     ~In(RequiredFields[n], agent_data).value}
             IN IF missing # {}
                THEN LET n == CHOOSE x \in missing : \A y \in missing : x <= y
                     IN Raise("PromptParseError",
                              <<"Missing required field: ", FieldName[RequiredFields[n]]>>)
                ELSE IF agent_data.kind # "dict"
                THEN Raise("TypeError", <<agent_data.kind, " indices must be integers">>)
                ELSE LET system_prompt == agent_data.items["system_prompt"]
                IN IF ~Truthy(system_prompt) THEN Return(prompt_data)
                   ELSE IF system_prompt.kind # "str"
                   THEN Raise("TypeError", <<"expected string or bytes-like object">>)
                   ELSE LET parsed == Dict(ParseXmlTags(system_prompt.text))
                            agent == [k \in DOMAIN agent_data.items
                                            \cup {"system_prompt_parsed"} |->
                                        IF k = "system_prompt_parsed" THEN parsed
                                        ELSE agent_data.items[k]]
                        IN Return(Dict([prompt_data.items EXCEPT
                                          !["agent"] = Dict(agent)]))

\* except Exception as e: raise PromptParseError(f"Unexpected parsing error: ...")
OnOtherExceptionPropagates(e) == e
OnOtherException(e) ==
    Raise("PromptParseError", <<"Unexpected parsing error: ">> \o e.message)

\* The two except clauses of parse, on the outcome o of its try block.
ExceptClauses(o) ==
    CASE o.raised = "none" -> o
      [] o.raised = "YAMLError" ->
            Raise("PromptParseError", <<"YAML parsing error: ">> \o o.message)
      [] OTHER -> OnOtherException(o)

\* parse: the try block under its two except clauses.
Parse(raw) == ExceptClauses(ParseBody(raw))

\* validate_prompt: (True, None), or (False, str(e)) on a PromptParseError.
ValidateOutcome(o) ==
    CASE o.raised = "none" -> Return([is_valid |-> TRUE, error |-> None])
      [] o.raised = "PromptParseError" ->
            Return([is_valid |-> FALSE, error |-> Str(o.message)])
      [] OTHER -> o

ValidatePrompt(raw) == ValidateOutcome(Parse(raw))

\* ------------------------------------------------------------------- Init
NewSession(ids, t, f) ==
    [agent_ids |-> ids, max_turns |-> t, debate_format |-> f,
     status |-> "pending", started_at |-> NullTime, completed_at |-> NullTime,
     decision_summary |-> FALSE]

\* The template every agent of a run was stored with (create_agent validated it).
StoredPrompt == RawTemplateOf(<<"advice">>)
\* The provider every agent of a run was stored with (AgentCreate admits
\* "gemini" and "ollama").
StoredProvider == "gemini"

NoState == [agents |-> <<>>, messages |-> <<>>, current_turn |-> 0]

\* No start request has arrived yet: the transcript is empty, no run exists.
NoRuns ==
    /\ db_messages = <<>>
    /\ now = 0
    /\ pc = [r \in Requests |-> "idle"]
    /\ state = [r \in Requests |-> NoState]
    /\ agent_idx = [r \in Requests |-> 0]
    /\ calls = [r \in Requests |-> <<>>]
    /\ summary_calls = [r \in Requests |-> 0]
    /\ stream = [r \in Requests |-> <<>>]
    /\ pauses = [r \in Requests |-> 0]
    /\ summary = [r \in Requests |-> <<>>]

\* create_debate_session stored a session of >= 2 distinct existing agents and
\* 1 <= max_turns; agents may have been deleted since (delete_agent).
\* No start request has arrived yet.
NoRequests ==
    /\ agent_prompt = [a \in db_agents |-> StoredPrompt]
    /\ agent_provider = [a \in db_agents |-> StoredProvider]
    /\ NoRuns

\* The server with its agents and one pending session, nothing under way.
AtRest ==
    /\ db_agents = AgentPool
    /\ session = NewSession(<<1, 2>>, 1, "turn_based")
    /\ NoRequests

Init ==
    /\ db_agents \in SUBSET AgentPool
    /\ \E ids \in DeclaredLists,
          t \in 1..MaxTurnsBound, f \in DebateFormats :
            session = NewSession(ids, t, f)
    /\ NoRequests
    /\ fn = "none"
    /\ arg = <<>>
    /\ result = <<>>

\* ---------------------------------------------------------------- actions
\* app.py start_debate, the handler up to `return StreamingResponse(...)`:
\* 400 unless the session is pending; the generator is created, not started.
Request(r) ==
    /\ pc[r] = "idle"
    /\ pc' = [pc EXCEPT ![r] =
                IF session.status # "pending" THEN "rejected" ELSE "accepted"]
    /\ UNCHANGED <<fn, arg, result, agent_prompt, agent_provider, db_agents, session, db_messages,
                   now, state, agent_idx, calls, summary_calls, stream, pauses,
                   summary>>

\* The dict returned by generate_debate_summary for an empty transcript.
NoDiscussion == [summary |-> "No discussion took place."]

\* generate_debate_summary: `if not messages:` on the rows it queried.
NoMessagesNever(rows) == FALSE
NoMessages(rows) == rows = <<>>

\* generate_debate_summary, except Exception: rollback, return None; then
\* event_generator finds `summary` falsy and yields complete.
SummaryRaisesPropagates(s) == OnException(s, "summary generation failed")
SummaryRaises(s) == Append(s, CompleteEvent)

\* max_messages: int = 10
MaxMessages == 10

\* messages[-max_messages:]
LastMessagesFirst(messages, k) ==
    SubSeq(messages, 1, IF Len(messages) > k THEN k ELSE Len(messages))
LastMessages(messages, k) ==
    SubSeq(messages, IF Len(messages) > k THEN Len(messages) - k + 1 ELSE 1,
           Len(messages))

\* The prompt of a step, by the sentence that tells the three apart.
PromptForByTurn(turn, idx) ==
    IF turn = 0 THEN "Please share your initial thoughts on this topic."
    ELSE "Based on the discussion so far, what are your thoughts?"
PromptFor(turn, idx) ==
    IF turn = 0 /\ idx = 0 THEN "Please share your initial thoughts on this topic."
    ELSE IF turn = 0 THEN "The discussion has begun. Please share your perspective."
    ELSE "Based on the discussion so far, what are your thoughts?"

\* The generation call of the step at position pos: the prompt of the position,
\* behind the window of state.messages (rendered and prepended when not empty).
GenerationCall(pos, st) ==
    [turn |-> pos.turn, agent_id |-> st.agents[pos.idx + 1],
     prompt |-> PromptFor(pos.turn, pos.idx),
     history |-> LastMessages(st.messages, MaxMessages),
     outcome |-> "pending"]

\* The turn loop arriving at position pos, with DebateState st, the events s
\* delivered so far, the session row as this run last wrote it, the log of the
\* calls it issued and the time t.  Either the generation call of that step is issued, or
\* the loop is exhausted: start_debate marks the session completed and
\* event_generator goes on into generate_debate_summary, up to its first
\* suspension point (the canned payload is yielded, or the summary call awaited).
Proceed(r, pos, st, s, row, log, t) ==
    IF pos.turn < row.max_turns
    THEN /\ state' = [state EXCEPT ![r] = [st EXCEPT !.current_turn = pos.turn]]
         /\ agent_idx' = [agent_idx EXCEPT ![r] = pos.idx]
         /\ calls' = [calls EXCEPT ![r] =
                Append(log, GenerationCall(pos, st))]
         /\ pc' = [pc EXCEPT ![r] = "generating"]
         /\ stream' = [stream EXCEPT ![r] = s]
         /\ session' = row
         /\ UNCHANGED <<summary_calls, summary>>
    ELSE /\ session' = [row EXCEPT !.status = StatusAfterLoop,
                                   !.completed_at = <<t>>]
         /\ state' = [state EXCEPT ![r] = st]
         /\ calls' = [calls EXCEPT ![r] = log]
         /\ UNCHANGED agent_idx
         /\ IF NoMessages(db_messages)
            THEN /\ summary' = [summary EXCEPT ![r] = <<NoDiscussion>>]
                 /\ stream' = [stream EXCEPT ![r] =
                                  Append(s, SummaryEvent(NoDiscussion))]
                 /\ pc' = [pc EXCEPT ![r] = "summary_yielded"]
                 /\ UNCHANGED summary_calls
            ELSE /\ stream' = [stream EXCEPT ![r] = s]
                 /\ summary_calls' = [summary_calls EXCEPT ![r] = @ + 1]
                 /\ pc' = [pc EXCEPT ![r] = "summarizing"]
                 /\ UNCHANGED summary

\* LLMClientFactory.create_client: provider.lower(), then "gemini" or "ollama"
\* or ValueError.
SupportedProviders == {"gemini", "ollama"}
Lower == [gemini |-> "gemini", Gemini |-> "gemini", ollama |-> "ollama",
          Ollama |-> "ollama", openai |-> "openai"]
CreateClient(provider) ==
    IF Lower[provider] \in SupportedProviders THEN Return(Lower[provider])
    ELSE Raise("ValueError", "Unsupported provider")

\* What the parse of a stored template comes to in start_debate: its error, or
\* nothing (substitute_variables and format_system_prompt do not raise on a
\* parsed template).
ParseStored(o) ==
    IF o.raised # "none" THEN Raise(o.raised, "template does not parse")
    ELSE Return(<<>>)

\* The body of `for agent in agents`: the template is parsed, substituted and
\* formatted, then the client is created.
AgentState(a) ==
    IF ParseStored(Parse(agent_prompt[a])).raised # "none"
    THEN ParseStored(Parse(agent_prompt[a]))
    ELSE CreateClient(agent_provider[a])

\* DebateFormat(debate_format): ValueError unless it is one of the three values.
DebateFormatAny(debate_format) == Return(debate_format)
DebateFormat(debate_format) ==
    IF debate_format \in DebateFormats THEN Return(debate_format)
    ELSE Raise("ValueError", "not a valid DebateFormat")

\* Lines 101-139 on the rows found: the first exception raised, as <<message>>,
\* or <<>> when the setup goes through.
SetupError(found, debate_format) ==
    LET failing == {i \in 1..Len(found) : AgentState(found[i]).raised # "none"}
    IN IF failing # {}
       THEN <<AgentState(found[CHOOSE i \in failing :
                                  \A j \in failing : i <= j]).message>>
       ELSE IF DebateFormat(debate_format).raised # "none"
       THEN <<DebateFormat(debate_format).message>>
       ELSE <<>>

\* Lines 151-157: both branches of the dispatch on the format run
\* _run_turn_based_debate, from its first step.
FirstPositionTurnBasedOnly(debate_format, max_turns) ==
    IF debate_format = "turn_based" THEN [turn |-> 0, idx |-> 0]
    ELSE [turn |-> max_turns, idx |-> 0]
FirstPosition(debate_format, max_turns) == [turn |-> 0, idx |-> 0]

\* The run of r ends in the except branch of event_generator before any write.
Abort(r, message) ==
    /\ stream' = [stream EXCEPT ![r] = OnException(@, message)]
    /\ pc' = [pc EXCEPT ![r] = "done"]
    /\ UNCHANGED <<session, state, agent_idx, calls, summary_calls, summary>>

\* First consumption of the stream: AgentOrchestrator.start_debate from its
\* first line to the first generation call of the turn loop.
Begin(r) ==
    /\ pc[r] = "accepted"
    /\ \E found \in QueryAgents(session.agent_ids, db_agents) :
          IF ~EnoughAgents(found)
          THEN Abort(r, "At least 2 agents required for a debate")
          ELSE IF SetupError(found, session.debate_format) # <<>>
          THEN Abort(r, SetupError(found, session.debate_format)[1])
          ELSE Proceed(r, FirstPosition(session.debate_format, session.max_turns),
                       [agents |-> found, messages |-> <<>>, current_turn |-> 0],
                       stream[r],
                       [session EXCEPT !.status = "active",
                                       !.started_at = <<now>>],
                       calls[r], now)
    /\ UNCHANGED <<fn, arg, result, agent_prompt, agent_provider, db_agents, db_messages, now,
                   pauses>>

\* `response = await ...generate(...)`: the loop goes on only once the call it
\* issued last has returned or raised.
SetOutcomeNotAwaited(log, o) == log
SetOutcome(log, o) == [log EXCEPT ![Len(log)].outcome = o]

\* self.db.add(db_message); self.db.commit()
PersistNothing(rows, db_message) == rows
Persist(rows, db_message) == Append(rows, db_message)

\* The awaited generation call returns a text: the message is appended to
\* state.messages, stored, and yielded to the consumer.
GenerateOk(r) ==
    /\ pc[r] = "generating"
    /\ LET st == state[r]
           a == st.agents[agent_idx[r] + 1]
       IN /\ state' = [state EXCEPT ![r].messages =
                          Append(@, TurnEvent(a, st.current_turn, now + 1))]
          /\ db_messages' = Persist(db_messages, DebateMessage(a, st.current_turn))
          /\ stream' = [stream EXCEPT ![r] =
                          Append(@, TurnEvent(a, st.current_turn, now + 1))]
    /\ calls' = [calls EXCEPT ![r] = SetOutcome(@, "ok")]
    /\ pc' = [pc EXCEPT ![r] = "yielded"]
    /\ now' = now + 1
    /\ UNCHANGED <<fn, arg, result, agent_prompt, agent_provider, db_agents, session, agent_idx,
                   summary_calls, pauses, summary>>

\* The awaited generation call raises: except Exception ... continue.
GenerateFails(r) ==
    /\ pc[r] = "generating"
    /\ LET st == state[r]
       IN Proceed(r, AfterException(st.current_turn, agent_idx[r],
                                    Len(st.agents), session.max_turns),
                  st, stream[r], session, SetOutcome(calls[r], "failed"), now + 1)
    /\ now' = now + 1
    /\ UNCHANGED <<fn, arg, result, agent_prompt, agent_provider, db_agents, db_messages, pauses>>

\* The awaited generation call returns a text and the message is appended to
\* state.messages, but the commit of its row raises: the same except branch,
\* print and continue.  Nothing is stored, nothing is yielded.
PersistFails(r) ==
    /\ pc[r] = "generating"
    /\ LET st == state[r]
           a == st.agents[agent_idx[r] + 1]
           kept == [st EXCEPT !.messages =
                       Append(@, TurnEvent(a, st.current_turn, now + 1))]
       IN Proceed(r, AfterException(st.current_turn, agent_idx[r],
                                    Len(st.agents), session.max_turns),
                  kept, stream[r], session, SetOutcome(calls[r], "unsaved"), now + 1)
    /\ now' = now + 1
    /\ UNCHANGED <<fn, arg, result, agent_prompt, agent_provider, db_agents,
                   db_messages, pauses>>

\* The consumer asks for the next event: the generator resumes after the
\* yield and reaches `await asyncio.sleep(0.5)`.
Resume(r) ==
    /\ pc[r] = "yielded"
    /\ pc' = [pc EXCEPT ![r] = "sleeping"]
    /\ pauses' = [pauses EXCEPT ![r] = @ + 1]
    /\ UNCHANGED <<fn, arg, result, agent_prompt, agent_provider, db_agents, session, db_messages,
                   now, state, agent_idx, calls, summary_calls, stream, summary>>

\* The sleep ends: the loops move on to the next participant or turn.
Wake(r) ==
    /\ pc[r] = "sleeping"
    /\ LET st == state[r]
       IN Proceed(r, NextPosition(st.current_turn, agent_idx[r], Len(st.agents)),
                  st, stream[r], session, calls[r], now + 1)
    /\ now' = now + 1
    /\ UNCHANGED <<fn, arg, result, agent_prompt, agent_provider, db_agents, db_messages, pauses>>

\* event_generator after generate_debate_summary returned `summary`:
\* the summary event when it is truthy, then the complete event.
Generated == [summary |-> "generated"]

\* The summary generation call returns: the text is stored on the session and
\* the summary event yielded.
SummaryOk(r) ==
    /\ pc[r] = "summarizing"
    /\ session' = [session EXCEPT !.decision_summary = TRUE]
    /\ summary' = [summary EXCEPT ![r] = <<Generated>>]
    /\ stream' = [stream EXCEPT ![r] = Append(@, SummaryEvent(Generated))]
    /\ pc' = [pc EXCEPT ![r] = "summary_yielded"]
    /\ UNCHANGED <<fn, arg, result, agent_prompt, agent_provider, db_agents, db_messages, now,
                   state, agent_idx, calls, summary_calls, pauses>>

\* The summary generation call raises: generate_debate_summary returns None,
\* event_generator skips the summary event and yields complete.
SummaryFails(r) ==
    /\ pc[r] = "summarizing"
    /\ summary' = [summary EXCEPT ![r] = <<None>>]
    /\ stream' = [stream EXCEPT ![r] = SummaryRaises(@)]
    /\ pc' = [pc EXCEPT ![r] = "done"]
    /\ UNCHANGED <<fn, arg, result, agent_prompt, agent_provider, db_agents, session, db_messages,
                   now, state, agent_idx, calls, summary_calls, pauses>>

\* The consumer took the summary event: event_generator yields complete.
Complete(r) ==
    /\ pc[r] = "summary_yielded"
    /\ stream' = [stream EXCEPT ![r] = Append(@, CompleteEvent)]
    /\ pc' = [pc EXCEPT ![r] = "done"]
    /\ UNCHANGED <<fn, arg, result, agent_prompt, agent_provider, db_agents, session, db_messages,
                   now, state, agent_idx, calls, summary_calls, pauses, summary>>

Suspended == {"accepted", "generating", "yielded", "sleeping", "summarizing",
              "summary_yielded"}

\* The consumer disconnects: the response task is cancelled, CancelledError is
\* raised at the suspension point and passes every `except Exception`; the
\* coroutine is gone, nothing else is written.
Disconnect(r) ==
    /\ pc[r] \in Suspended
    /\ pc' = [pc EXCEPT ![r] = "cancelled"]
    /\ UNCHANGED <<fn, arg, result, agent_prompt, agent_provider, db_agents, session, db_messages,
                   now, state, agent_idx, calls, summary_calls, stream, pauses,
                   summary>>

\* A step of the run of request r that needs only the generation capability,
\* the timer and the consumer to go on.
RunStep(r) ==
    \/ Begin(r)
    \/ GenerateOk(r)
    \/ GenerateFails(r)
    \/ Resume(r)
    \/ Wake(r)
    \/ SummaryOk(r)
    \/ SummaryFails(r)
    \/ Complete(r)

\* One start request for the session.
Single == {1}

Next ==
    \/ \E r \in Single : Request(r)
    \/ \E r \in Single : Begin(r)
    \/ \E r \in Single : GenerateOk(r)
    \/ \E r \in Single : GenerateFails(r)
    \/ \E r \in Single : Resume(r)
    \/ \E r \in Single : Wake(r)
    \/ \E r \in Single : SummaryOk(r)
    \/ \E r \in Single : SummaryFails(r)
    \/ \E r \in Single : Complete(r)
    \/ \E r \in Single : Disconnect(r)

Spec == Init /\ [][Next]_vars

\* Two start requests for the same session, handled by the one event loop.
InitRace ==
    /\ Init
    /\ db_agents = AgentPool
    /\ session.agent_ids = <<1, 2>>
    /\ session.max_turns = 1
    /\ session.debate_format = "turn_based"

NextRace ==
    \/ \E r \in Requests : Request(r)
    \/ \E r \in Requests : Begin(r)
    \/ \E r \in Requests : GenerateOk(r)
    \/ \E r \in Requests : GenerateFails(r)
    \/ \E r \in Requests : Resume(r)
    \/ \E r \in Requests : Wake(r)
    \/ \E r \in Requests : SummaryOk(r)
    \/ \E r \in Requests : SummaryFails(r)
    \/ \E r \in Requests : Complete(r)
    \/ \E r \in Requests : Disconnect(r)

RaceSpec == InitRace /\ [][NextRace]_vars

\* The consumer keeps reading, every generation call returns and the timer
\* fires: a run that can take a step eventually takes one.
NextAttended ==
    \/ \E r \in Single : Request(r)
    \/ \E r \in Single : RunStep(r)

LiveSpec == Init /\ [][NextAttended]_vars /\ \A r \in Single : WF_vars(RunStep(r))

\* The same server when the commit of a DebateMessage row may raise (the
\* database is locked, the disk is full, the connection is lost).
NextStorage ==
    \/ Next
    \/ \E r \in Single : PersistFails(r)

\* Every agent of the profile exists; the session is turn_based.
InitStorage ==
    /\ Init
    /\ db_agents = AgentPool
    /\ session.debate_format = "turn_based"

StorageSpec == InitStorage /\ [][NextStorage]_vars

\* The engine started on rows that the endpoints did not check: a stored
\* template that does not load, a provider tag in another case or unknown, a
\* format string that is not one of the three.
StoredPrompts == {StoredPrompt, NotYaml}
StoredProviders == {"gemini", "Ollama", "openai"}
RequestedFormats == DebateFormats \cup {"panel"}

InitSetup ==
    /\ db_agents = AgentPool
    /\ \E f \in RequestedFormats : session = NewSession(<<1, 2>>, 1, f)
    /\ agent_prompt \in [AgentPool -> StoredPrompts]
    /\ agent_provider \in [AgentPool -> StoredProviders]
    /\ NoRuns
    /\ fn = "none"
    /\ arg = <<>>
    /\ result = <<>>

SetupSpec == InitSetup /\ [][Next]_vars


\* ------------------------------------------------- the conversation window
\* Texts are sequences of tokens; "" is the empty sequence.
\* Longest state.messages handed to _build_conversation_history in the model.
MaxHistory == 12

Speakers == {"Ada", "Bo"}

\* The dict appended to state.messages; the content tells the messages apart.
WindowMessage(name, i) ==
    [agent_name |-> name, agent_role |-> "advisor", content |-> ToString(i)]

\* "\n".join(parts)
RECURSIVE Join(_, _)
Join(parts, sep) ==
    IF parts = <<>> THEN <<>>
    ELSE IF Len(parts) = 1 THEN parts[1]
    ELSE parts[1] \o sep \o Join(Tail(parts), sep)


\* f"\n{msg['agent_name']} ({msg['agent_role']}):\n{msg['content']}"
HistoryLine(msg) ==
    <<"\n", msg.agent_name, " (", msg.agent_role, "):", "\n", msg.content>>

HistoryHeader == <<"CONVERSATION SO FAR:">>

BuildConversationHistory(messages) ==
    IF messages = <<>> THEN <<>>
    ELSE LET recent == LastMessages(messages, MaxMessages)
         IN Join(<<HistoryHeader>> \o [i \in 1..Len(recent) |-> HistoryLine(recent[i])],
                 <<"\n">>)

\* full_prompt = f"{conversation_history}\n\n{prompt}" if conversation_history
\* else prompt
FullPrompt(conversation_history, prompt) ==
    IF conversation_history # <<>>
    THEN conversation_history \o <<"\n", "\n">> \o prompt
    ELSE prompt

\* One of the prompts of the turn loop.
TurnPrompt == <<"Based on the discussion so far, what are your thoughts?">>

\* arg is state.messages: empty when the turn loop starts.
InitWindow ==
    /\ AtRest
    /\ fn = "none"
    /\ arg = <<>>
    /\ result = <<>>

\* state.messages.append(message_data): one more contribution, by any speaker.
AppendMessage ==
    /\ fn = "none"
    /\ Len(arg) < MaxHistory
    /\ \E name \in Speakers : arg' = Append(arg, WindowMessage(name, Len(arg) + 1))
    /\ UNCHANGED <<run_vars, fn, result>>

\* The head of a step of the turn loop: the window is rendered from
\* state.messages and put in front of the prompt.
BuildHistory ==
    /\ fn = "none"
    /\ fn' = "_build_conversation_history"
    /\ LET conversation_history == BuildConversationHistory(arg)
       IN result' = [conversation_history |-> conversation_history,
                     full_prompt |-> FullPrompt(conversation_history, TurnPrompt)]
    /\ UNCHANGED <<run_vars, arg>>

NextWindow == AppendMessage \/ BuildHistory

WindowSpec == InitWindow /\ [][NextWindow]_vars

\* ----------------------------------------------- the templates of the model
\* The values a template gives agent.system_prompt.
SystemPromptValues ==
    {Str(<<>>), Str(<<"You", " ", "advise">>),
     Str(<<"<persona>", "\n", "mentor", "\n", "</persona>">>),
     None, Num(0), Num(5), List(<<Str(<<"You">>)>>)}

\* agent: a mapping with some of the required fields, with or without the
\* optional temperature.
AgentMappings ==
    {Dict([k \in F \cup X |->
             CASE k = "name" -> Str(<<"Ada">>)
               [] k = "role" -> Str(<<"advisor">>)
               [] k = "system_prompt" -> sp
               [] OTHER -> Num(7)]) :
        F \in SUBSET {"name", "role", "system_prompt"},
        X \in {{}, {"temperature"}},
        sp \in SystemPromptValues}

\* agent: anything else a YAML document can put there.
AgentOthers ==
    {None, Num(7), Str(<<"advisor">>),
     Str(<<"name", " ", "role", " ", "system_prompt">>),
     List(<<>>), List(<<Str(<<"name">>), Str(<<"role">>), Str(<<"system_prompt">>)>>)}

RawTemplates ==
    {NotYaml, Yaml(None), Yaml(Str(<<"agent">>)), Yaml(List(<<Str(<<"agent">>)>>)),
     Yaml(Dict(<<>>)), Yaml(Dict([name |-> Str(<<"Ada">>)]))}
    \cup {Yaml(Dict([agent |-> a])) : a \in AgentMappings \cup AgentOthers}
    \cup {Yaml(Dict([agent |-> a, version |-> Num(1)])) : a \in AgentMappings}

InitTemplate ==
    /\ AtRest
    /\ fn = "none"
    /\ arg \in RawTemplates
    /\ result = <<>>

DoParse ==
    /\ fn = "none"
    /\ fn' = "parse"
    /\ result' = Parse(arg)
    /\ UNCHANGED <<run_vars, arg>>

DoValidate ==
    /\ fn = "none"
    /\ fn' = "validate_prompt"
    /\ result' = ValidatePrompt(arg)
    /\ UNCHANGED <<run_vars, arg>>

NextTemplate == DoParse \/ DoValidate

TemplateSpec == InitTemplate /\ [][NextTemplate]_vars

\* ---------------------------------------------------- variable substitution
\* variable_pattern = \{\{([a-zA-Z_][a-zA-Z0-9_]*)\}\}, over texts whose
\* tokens are single characters.  The letters and digits of the model:
IdStart == {"a", "b", "_"}
IdChars == IdStart \cup {"1"}

\* The last index of the longest run of identifier characters from k on.
RECURSIVE IdEnd(_, _)
IdEnd(text, k) ==
    IF k + 1 <= Len(text) /\ text[k + 1] \in IdChars THEN IdEnd(text, k + 1) ELSE k

\* The pattern matched at index i: the index of the last character of the
\* match, 0 when there is no match at i.
MatchEnd(text, i) ==
    IF /\ i + 4 <= Len(text)
       /\ text[i] = "{"
       /\ text[i + 1] = "{"
       /\ text[i + 2] \in IdStart
    THEN LET e == IdEnd(text, i + 2)
         IN IF e + 2 <= Len(text) /\ text[e + 1] = "}" /\ text[e + 2] = "}"
            THEN e + 2 ELSE 0
    ELSE 0

\* match.group(1)
Group1(match) == SubSeq(match, 3, Len(match) - 2)

\* str(value)
PyStr(v) ==
    CASE v.kind = "str" -> v.text
      [] v.kind = "int" -> <<ToString(v.num)>>
      [] OTHER -> <<"N", "o", "n", "e">>

\* variables.get(var_name, match.group(0))
GetOrEmpty(variables, var_name, default) ==
    IF var_name \in DOMAIN variables THEN variables[var_name] ELSE Str(<<>>)
Get(variables, var_name, default) ==
    IF var_name \in DOMAIN variables THEN variables[var_name] ELSE default

\* replace_var
ReplaceVar(match, variables) == PyStr(Get(variables, Group1(match), Str(match)))

\* variable_pattern.sub(replace_var, text) from index i on: the matches are
\* taken left to right, without overlap; what is put in is not scanned again.
RECURSIVE SubFrom(_, _, _)
SubFrom(text, i, variables) ==
    IF i > Len(text) THEN <<>>
    ELSE LET e == MatchEnd(text, i)
         IN IF e = 0 THEN <<text[i]>> \o SubFrom(text, i + 1, variables)
            ELSE ReplaceVar(SubSeq(text, i, e), variables)
                    \o SubFrom(text, e + 1, variables)

SubstituteString(text, variables) == SubFrom(text, 1, variables)

RECURSIVE DeepSubstitute(_, _)
DeepSubstitute(obj, variables) ==
    CASE obj.kind = "dict" ->
            Dict([k \in DOMAIN obj.items |-> DeepSubstitute(obj.items[k], variables)])
      [] obj.kind = "list" ->
            List([i \in 1..Len(obj.elems) |-> DeepSubstitute(obj.elems[i], variables)])
      [] obj.kind = "str" -> Str(SubstituteString(obj.text, variables))
      [] OTHER -> obj

SubstituteVariables(prompt_data, variables) == DeepSubstitute(prompt_data, variables)

\* variable_pattern.findall(raw_prompt) from index i on.
RECURSIVE FindAllFrom(_, _)
FindAllFrom(text, i) ==
    IF i > Len(text) THEN <<>>
    ELSE LET e == MatchEnd(text, i)
         IN IF e = 0 THEN FindAllFrom(text, i + 1)
            ELSE <<Group1(SubSeq(text, i, e))>> \o FindAllFrom(text, e + 1)

RECURSIVE Distinct(_)
Distinct(names) ==
    IF names = <<>> THEN <<>>
    ELSE LET front == Distinct(SubSeq(names, 1, Len(names) - 1))
             last == names[Len(names)]
         IN IF \E i \in 1..Len(front) : front[i] = last THEN front
            ELSE Append(front, last)

ExtractVariablesDistinct(raw_prompt) == Distinct(FindAllFrom(raw_prompt, 1))
ExtractVariables(raw_prompt) == FindAllFrom(raw_prompt, 1)

\* The pieces the texts of the model are made of: placeholders, near misses
\* (a digit first, a blank inside), single braces, plain characters.
Fragments ==
    {<<"{", "{", "a", "}", "}">>, <<"{", "{", "b", "1", "}", "}">>,
     <<"{", "{", "1", "}", "}">>, <<"{", "{", "a", " ", "}", "}">>,
     <<"{">>, <<"}">>, <<"a">>}

\* Most pieces in a text.
MaxFragments == 3

\* user_context: the substitution contexts of the model, among them one whose
\* value is itself a placeholder (the decision topic is free text).
Contexts ==
    {[n \in {} |-> None],
     [n \in {<<"a">>} |-> Str(<<"X">>)],
     [n \in {<<"b", "1">>} |-> Str(<<"Z", " ">>)],
     [n \in {<<"a">>, <<"b", "1">>} |->
        IF n = <<"a">> THEN Str(<<"{", "{", "b", "1", "}", "}">>) ELSE Str(<<"Y">>)],
     [n \in {<<"a">>, <<"b", "1">>} |-> IF n = <<"a">> THEN Num(5) ELSE Str(<<>>)]}

\* A raw template with text t in its name, its system prompt and a list.
RawTemplateWith(t) ==
    Yaml(Dict([agent |-> Dict([name |-> Str(t), role |-> Str(<<"advisor">>),
                               system_prompt |-> Str(t), temperature |-> Num(7),
                               tags |-> List(<<Str(t), Num(3)>>)])]))

\* parsed_prompt = self.prompt_parser.parse(agent.system_prompt_raw)
PromptData(t) == Parse(RawTemplateWith(t)).value

\* A text still to be written (of `pieces` fragments so far), and a context.
InitSubstitute ==
    /\ AtRest
    /\ fn = "none"
    /\ \E c \in Contexts : arg = [raw_prompt |-> <<>>, pieces |-> 0, variables |-> c]
    /\ result = <<>>

\* The author of the template writes one more piece of its text.
Write ==
    /\ fn = "none"
    /\ arg.pieces < MaxFragments
    /\ \E f \in Fragments :
          arg' = [arg EXCEPT !.raw_prompt = @ \o f, !.pieces = @ + 1]
    /\ UNCHANGED <<run_vars, fn, result>>

DoSubstitute ==
    /\ fn = "none"
    /\ fn' = "substitute_variables"
    /\ result' = SubstituteVariables(PromptData(arg.raw_prompt), arg.variables)
    /\ UNCHANGED <<run_vars, arg>>

\* The substituted template is substituted again with the same context.
DoResubstitute ==
    /\ fn = "none"
    /\ fn' = "resubstitute"
    /\ LET once == SubstituteVariables(PromptData(arg.raw_prompt), arg.variables)
       IN result' = [once |-> once,
                     twice |-> SubstituteVariables(once, arg.variables)]
    /\ UNCHANGED <<run_vars, arg>>

DoExtract ==
    /\ fn = "none"
    /\ fn' = "extract_variables"
    /\ result' = ExtractVariables(arg.raw_prompt)
    /\ UNCHANGED <<run_vars, arg>>

NextSubstitute == Write \/ DoSubstitute \/ DoResubstitute \/ DoExtract

SubstituteSpec == InitSubstitute /\ [][NextSubstitute]_vars

\* ------------------------------------------------------ format_system_prompt
\* The order of the `if '<tag>' in parsed` blocks.
SectionOrderReversed ==
    <<"format", "examples", "constraints", "behavior", "context", "persona">>
SectionOrder ==
    <<"persona", "context", "behavior", "constraints", "examples", "format">>

\* What each block puts before the "\n" and the section.
SectionHeader ==
    [persona |-> <<"PERSONA:">>, context |-> <<"\n", "CONTEXT:">>,
     behavior |-> <<"\n", "BEHAVIOR GUIDELINES:">>,
     constraints |-> <<"\n", "CONSTRAINTS:">>, examples |-> <<"\n", "EXAMPLES:">>,
     format |-> <<"\n", "RESPONSE FORMAT:">>]

\* parts, from the n-th block on.
RECURSIVE PartsFrom(_, _)
PartsFrom(parsed, n) ==
    IF n > Len(SectionOrder) THEN <<>>
    ELSE LET tag == SectionOrder[n]
         IN (IF tag \in DOMAIN parsed
             THEN <<SectionHeader[tag] \o <<"\n">> \o PyStr(parsed[tag])>>
             ELSE <<>>) \o PartsFrom(parsed, n + 1)

FormatSystemPrompt(prompt_data) ==
    LET agent == IF "agent" \in DOMAIN prompt_data.items
                 THEN prompt_data.items["agent"] ELSE Dict(<<>>)
        system_prompt == IF "system_prompt" \in DOMAIN agent.items
                         THEN agent.items["system_prompt"] ELSE Str(<<>>)
    IN IF /\ "system_prompt_parsed" \in DOMAIN agent.items
          /\ Truthy(agent.items["system_prompt_parsed"])
       THEN LET parts == PartsFrom(agent.items["system_prompt_parsed"].items, 1)
            IN IF parts # <<>> THEN Str(Join(parts, <<"\n">>)) ELSE system_prompt
       ELSE system_prompt

\* The tokens the system prompts of the model are written with.
Markup == {"<persona>", "</persona>", "<FORMAT>", "</format>", "advice", " "}

\* Most tokens in a system prompt.
MaxTokens == 5

\* arg is the system prompt of a template, still to be written.
InitFormat ==
    /\ AtRest
    /\ fn = "none"
    /\ arg = <<>>
    /\ result = <<>>

WriteMarkup ==
    /\ fn = "none"
    /\ Len(arg) < MaxTokens
    /\ \E m \in Markup : arg' = Append(arg, m)
    /\ UNCHANGED <<run_vars, fn, result>>

\* start_debate on an agent with that template: parse, substitute, format.
DoFormat ==
    /\ fn = "none"
    /\ fn' = "format_system_prompt"
    /\ \E c \in Contexts :
          result' = FormatSystemPrompt(
                        SubstituteVariables(Parse(RawTemplateOf(arg)).value, c))
    /\ UNCHANGED <<run_vars, arg>>

NextFormat == WriteMarkup \/ DoFormat

FormatSpec == InitFormat /\ [][NextFormat]_vars

\* ------------------------------------------------------ the agent endpoints
\* The templates the requests of the model carry: three that parse, four that
\* do not.
RequestTemplates ==
    {RawTemplateOf(<<"advice">>), RawTemplateOf(<<>>),
     RawTemplateOf(<<"<persona>", "advice", "</persona>">>),
     NotYaml, Yaml(Dict([agent |-> None])),
     Yaml(Dict([agent |-> Dict([name |-> Str(<<"Ada">>),
                                system_prompt |-> Str(<<"advice">>)])])),
     Yaml(Dict([agent |-> Dict([name |-> Str(<<"Ada">>), role |-> Str(<<"advisor">>),
                                system_prompt |-> Num(5)])]))}

\* An AgentUpdate: with system_prompt_raw set, or with other fields only.
AgentUpdates ==
    {[name |-> "Bo"]} \cup {[system_prompt_raw |-> raw] : raw \in RequestTemplates}

\* if not is_valid: raise HTTPException(status_code=400, ...)
InvalidPassed(validation) == FALSE
Invalid(validation) == ~validation.value.is_valid

\* The validation of both endpoints and the parse after it: the status the
\* request ends with when the template is not stored, 0 when it goes on.
CheckStatus(validation, parsed) ==
    IF validation.raised # "none" THEN 500
    ELSE IF Invalid(validation) THEN 400
    ELSE IF parsed.raised # "none" THEN 500
    ELSE 0

TemplateCheck(raw) == CheckStatus(ValidatePrompt(raw), Parse(raw))

\* No agent is stored yet; no debate is under way.
InitAgents ==
    /\ db_agents = {}
    /\ session = NewSession(<<1, 2>>, 1, "turn_based")
    /\ NoRequests
    /\ fn = "none"
    /\ arg = <<>>
    /\ result = <<>>

requests_vars == <<session, db_messages, now, pc, state, agent_idx, calls,
                   summary_calls, stream, pauses, summary>>

\* POST /api/profiles/{profile_id}/agents
CreateAgent ==
    /\ db_agents # AgentPool
    /\ \E raw \in RequestTemplates, provider \in SupportedProviders,
          status \in {0, 400, 500} :
          LET id == CHOOSE a \in AgentPool \ db_agents :
                        \A b \in AgentPool \ db_agents : a <= b
          IN /\ status = TemplateCheck(raw)
             /\ fn' = "create_agent"
             /\ arg' = [system_prompt_raw |-> raw, model_provider |-> provider]
             /\ IF status # 0
                THEN /\ result' = [status_code |-> status]
                     /\ UNCHANGED <<db_agents, agent_prompt, agent_provider>>
                ELSE /\ db_agents' = db_agents \cup {id}
                     /\ agent_prompt' = [a \in db_agents \cup {id} |->
                                            IF a = id THEN raw ELSE agent_prompt[a]]
                     /\ agent_provider' = [a \in db_agents \cup {id} |->
                                              IF a = id THEN provider
                                              ELSE agent_provider[a]]
                     /\ result' = [status_code |-> 201]
    /\ UNCHANGED requests_vars

\* PATCH /api/agents/{agent_id}
UpdateAgent ==
    /\ \E agent_id \in AgentPool, update_data \in AgentUpdates :
          /\ fn' = "update_agent"
          /\ arg' = update_data
          /\ IF agent_id \notin db_agents
             THEN /\ result' = [status_code |-> 404]
                  /\ UNCHANGED <<db_agents, agent_prompt, agent_provider>>
             ELSE IF "system_prompt_raw" \notin DOMAIN update_data
             THEN /\ result' = [status_code |-> 200]
                  /\ UNCHANGED <<db_agents, agent_prompt, agent_provider>>
             ELSE \E status \in {0, 400, 500} :
                  /\ status = TemplateCheck(update_data.system_prompt_raw)
                  /\ IF status # 0
                     THEN /\ result' = [status_code |-> status]
                          /\ UNCHANGED <<db_agents, agent_prompt, agent_provider>>
                     ELSE /\ agent_prompt' = [agent_prompt EXCEPT ![agent_id] =
                                                 update_data.system_prompt_raw]
                          /\ result' = [status_code |-> 200]
                          /\ UNCHANGED <<db_agents, agent_provider>>
    /\ UNCHANGED requests_vars

\* DELETE /api/agents/{agent_id}
DeleteAgent ==
    /\ \E agent_id \in db_agents :
          /\ db_agents' = db_agents \ {agent_id}
          /\ agent_prompt' = [a \in db_agents \ {agent_id} |-> agent_prompt[a]]
          /\ agent_provider' = [a \in db_agents \ {agent_id} |-> agent_provider[a]]
          /\ arg' = [agent_id |-> agent_id]
    /\ fn' = "delete_agent"
    /\ result' = [status_code |-> 204]
    /\ UNCHANGED requests_vars

NextAgents == CreateAgent \/ UpdateAgent \/ DeleteAgent

AgentSpec == InitAgents /\ [][NextAgents]_vars

\* ------------------------------------------------------------ observations
\* The kind of an event as a consumer sees it: its "type" when it has one; the
\* contribution dicts carry none.
Kind(e) == IF "type" \in DOMAIN e THEN e.type ELSE "turn"

IsTurn(e) == Kind(e) = "turn"
TurnEvents(s) == SelectSeq(s, IsTurn)

Count(s, k) == Cardinality({i \in 1..Len(s) : Kind(s[i]) = k})

\* What the turn loop of a run is expected to address at its k-th step.
ExpectedAgent(r, k) == state[r].agents[((k - 1) % Len(state[r].agents)) + 1]
ExpectedTurn(r, k) == (k - 1) \div Len(state[r].agents)
Steps(r) == Len(state[r].agents) * session.max_turns

\* The run of r got past its setup (participants resolved, session activated).
Activated(r) == Len(state[r].agents) >= 2

Finished(r) == pc[r] = "done"

Succeeded(c) == c.outcome = "ok"

\* ------------------------------------------------------------------ claims
\* C1: in a finished run in which every generation call succeeded, the stream
\* holds exactly N*T turn events, the k-th one by participant ((k-1) mod N)+1
\* at turn index (k-1) div N, with non-decreasing timestamps; while the run is
\* under way and no call has failed, the events so far are a prefix of that.
C1_RoundRobinStream ==
    \A r \in Requests :
        (Activated(r) /\ \A k \in 1..Len(calls[r]) : calls[r][k].outcome # "failed") =>
            LET ev == TurnEvents(stream[r])
            IN /\ Len(ev) <= Steps(r)
               /\ Finished(r) => Len(ev) = Steps(r)
               /\ \A k \in 1..Len(ev) :
                     /\ ev[k].agent_id = ExpectedAgent(r, k)
                     /\ ev[k].turn = ExpectedTurn(r, k)
               /\ \A k \in 1..(Len(ev) - 1) : ev[k].timestamp <= ev[k + 1].timestamp

\* A finished run of 3 participants and 2 turns with its 6 turn events.
C1_Witness ==
    \E r \in Requests :
        /\ Finished(r)
        /\ Len(state[r].agents) = 3
        /\ session.max_turns = 2
        /\ Len(TurnEvents(stream[r])) = 6

\* C2: whatever calls fail, the steps are attempted in the round-robin order,
\* the turn events are exactly the successful steps in that order, and a
\* finished run has attempted every step up to the last turn.
C2_FailureIsolated ==
    \A r \in Requests :
        Activated(r) =>
            LET ok == SelectSeq(calls[r], Succeeded)
                ev == TurnEvents(stream[r])
            IN /\ \A k \in 1..Len(calls[r]) :
                     /\ calls[r][k].agent_id = ExpectedAgent(r, k)
                     /\ calls[r][k].turn = ExpectedTurn(r, k)
               /\ Len(ev) = Len(ok)
               /\ \A k \in 1..Len(ev) :
                     /\ ev[k].agent_id = ok[k].agent_id
                     /\ ev[k].turn = ok[k].turn
               /\ Finished(r) => Len(calls[r]) = Steps(r)

\* A finished run in which the second participant failed at one turn and the
\* first participant's event of that turn and an event of a later step exist.
C2_Witness ==
    \E r \in Requests :
        /\ Finished(r)
        /\ Len(calls[r]) = Steps(r)
        /\ \E k \in 2..(Len(calls[r]) - 1) :
              /\ calls[r][k].outcome = "failed"
              /\ calls[r][k - 1].outcome = "ok"
              /\ calls[r][k + 1].outcome = "ok"
              /\ calls[r][k - 1].turn = calls[r][k].turn
        /\ Len(TurnEvents(stream[r])) = Steps(r) - 1

\* C3: the session status only ever steps pending -> active -> completed.
C3_StatusSequence ==
    [][\/ session'.status = session.status
       \/ session.status = "pending" /\ session'.status = "active"
       \/ session.status = "active" /\ session'.status = "completed"]_vars

\* C4: when fewer than 2 of the declared participants resolve, nothing is
\* written and no call is made: the session keeps its initial fields, the
\* transcript stays empty, and a consumed stream is the single error event.
C4_TooFewAgentsAborts ==
    Cardinality(Range(session.agent_ids) \cap db_agents) < 2 =>
        /\ session.status = "pending"
        /\ session.started_at = NullTime
        /\ session.completed_at = NullTime
        /\ ~session.decision_summary
        /\ db_messages = <<>>
        /\ \A r \in Requests :
              /\ calls[r] = <<>>
              /\ summary_calls[r] = 0
              /\ pc[r] \in {"idle", "accepted", "cancelled", "done"}
              /\ Finished(r) => /\ Len(stream[r]) = 1
                                /\ Kind(stream[r][1]) = "error"

\* The stream of a session with exactly one resolvable participant was consumed.
C4_Witness ==
    \E r \in Requests :
        /\ Cardinality(Range(session.agent_ids) \cap db_agents) = 1
        /\ Finished(r)
        /\ Kind(stream[r][1]) = "error"

\* C5: a run of the engine that starts on a session that is not pending
\* writes nothing to the session or the transcript, makes no call and ends.
C5_NonPendingRejected ==
    [][\A r \in Requests :
          (pc[r] = "accepted" /\ pc'[r] \notin {"accepted", "cancelled"}
              /\ session.status # "pending") =>
             /\ session' = session
             /\ db_messages' = db_messages
             /\ calls'[r] = <<>>
             /\ pc'[r] = "done"]_vars

Rank(e) ==
    CASE Kind(e) = "turn" -> 0
      [] Kind(e) = "summary" -> 1
      [] OTHER -> 2

\* C6: every stream is turn events, then at most one summary, then at most one
\* terminal event (complete or error) in last place; a finished stream ends
\* with its one terminal event.
C6_StreamShape ==
    \A r \in Requests :
        LET s == stream[r]
        IN /\ \A i \in 1..Len(s) : \A j \in (i + 1)..Len(s) : Rank(s[i]) <= Rank(s[j])
           /\ Count(s, "summary") <= 1
           /\ Count(s, "complete") + Count(s, "error") <= 1
           /\ \A i \in 1..(Len(s) - 1) : Rank(s[i]) < 2
           /\ Finished(r) => /\ Len(s) >= 1
                             /\ Rank(s[Len(s)]) = 2

\* A finished stream with turn events, a summary and complete.
C6_Witness ==
    \E r \in Requests :
        /\ Finished(r)
        /\ Count(stream[r], "turn") >= 2
        /\ Count(stream[r], "summary") = 1
        /\ Kind(stream[r][Len(stream[r])]) = "complete"

EventTypes == {"turn", "summary", "complete", "error"}

\* C7: every event of a stream has a "type" among turn, summary, complete,
\* error, and a contribution event has type "turn".
C7_EveryEventTyped ==
    \A r \in Requests : \A i \in 1..Len(stream[r]) :
        LET e == stream[r][i]
        IN /\ "type" \in DOMAIN e
           /\ e.type \in EventTypes
           /\ ("agent_id" \in DOMAIN e) => e.type = "turn"

InTurnLoop == {"generating", "yielded", "sleeping"}

\* C8: an activated run is either still inside its turn loop, or it has
\* attempted every step and the session is completed -- whether or not the
\* consumer is still there.
C8_RunsToTurnLimit ==
    \A r \in Requests :
        (Activated(r) /\ pc[r] \notin InTurnLoop) =>
            /\ Len(calls[r]) = Steps(r)
            /\ session.status = "completed"

\* C9: with the consumer reading and every call returning, an activated run
\* ends: the session is completed and the stream ends with complete.
C9_Terminates ==
    \A r \in Requests :
        Activated(r) ~>
            (/\ Finished(r)
             /\ session.status = "completed"
             /\ session.completed_at # NullTime
             /\ Kind(stream[r][Len(stream[r])]) = "complete")

\* A run in which every generation call failed ended with complete.
C9_Witness ==
    \E r \in Requests :
        /\ Finished(r)
        /\ Len(calls[r]) = Steps(r)
        /\ Steps(r) >= 4
        /\ \A k \in 1..Len(calls[r]) : calls[r][k].outcome = "failed"
        /\ session.status = "completed"
        /\ Kind(stream[r][Len(stream[r])]) = "complete"

\* C10: no (turn, participant) pair is called twice, never more than N*T
\* calls are issued, and a finished run has issued exactly N*T.
C10_NoRetry ==
    \A r \in Requests :
        Activated(r) =>
            /\ \A i \in 1..Len(calls[r]) : \A j \in (i + 1)..Len(calls[r]) :
                  <<calls[r][i].turn, calls[r][i].agent_id>> #
                  <<calls[r][j].turn, calls[r][j].agent_id>>
            /\ Len(calls[r]) <= Steps(r)
            /\ Finished(r) => Len(calls[r]) = Steps(r)

\* A finished run with a failed first call and exactly N*T calls.
C10_Witness ==
    \E r \in Requests :
        /\ Activated(r)
        /\ Finished(r)
        /\ Len(calls[r]) = Steps(r)
        /\ Steps(r) >= 4
        /\ calls[r][1].outcome = "failed"

\* The summary step of the run of r was entered (generate_debate_summary
\* was called by event_generator).
SummaryStepEntered(r) == pc[r] = "summarizing" \/ summary[r] # <<>>

\* C11: when the summary step runs on an empty persisted transcript it returns
\* the canned no-discussion payload (delivered as the one summary event),
\* issues no generation call and leaves the session's summary text unset.
C11_EmptyTranscriptCanned ==
    \A r \in Requests :
        (SummaryStepEntered(r) /\ db_messages = <<>>) =>
            /\ summary[r] = <<NoDiscussion>>
            /\ summary_calls[r] = 0
            /\ ~session.decision_summary
            /\ Count(stream[r], "summary") = 1
            /\ \A i \in 1..Len(stream[r]) :
                  Kind(stream[r][i]) = "summary" => stream[r][i].data = NoDiscussion

\* A run of 4 steps or more whose calls all failed got the canned payload.
C11_Witness ==
    \E r \in Requests :
        /\ Activated(r)
        /\ Steps(r) >= 4
        /\ Len(calls[r]) = Steps(r)
        /\ db_messages = <<>>
        /\ summary[r] = <<NoDiscussion>>
        /\ summary_calls[r] = 0
        /\ Finished(r)

\* C12: when the summary generation call fails, the stream holds no summary
\* event and no error event and ends with complete, the session is completed
\* and its summary text is still unset.
C12_SummaryFailureNotTerminal ==
    \A r \in Requests :
        summary[r] = <<None>> =>
            /\ summary_calls[r] = 1
            /\ Count(stream[r], "summary") = 0
            /\ Count(stream[r], "error") = 0
            /\ Finished(r)
            /\ Kind(stream[r][Len(stream[r])]) = "complete"
            /\ session.status = "completed"
            /\ session.completed_at # NullTime
            /\ ~session.decision_summary

\* A run with contributions whose summary call failed.
C12_Witness ==
    \E r \in Requests :
        /\ summary[r] = <<None>>
        /\ Count(stream[r], "turn") >= 2
        /\ db_messages # <<>>
        /\ Finished(r)

\* C14: a pause follows every step of the turn loop, failed or not: when the
\* next call is awaited every earlier step had its pause, and once the loop is
\* over there are as many pauses as steps.
C14_PauseAfterEveryStep ==
    \A r \in Requests :
        Activated(r) =>
            /\ pc[r] = "generating" => pauses[r] = Len(calls[r]) - 1
            /\ pc[r] \in {"summarizing", "summary_yielded", "done"} =>
                  pauses[r] = Len(calls[r])

Min(a, b) == IF a < b THEN a ELSE b

\* The j-th message block of a rendered window: the tokens after the header
\* come in blocks of one separator and one line.
WindowBlock(text, j) ==
    SubSeq(text, 2 + (j - 1) * 8, 1 + j * 8)

\* C13: the window rendered from n messages is the header followed by exactly
\* the last min(n, 10) messages, oldest first; from no message it is the empty
\* string, and the prompt is then sent as it is.
C13_WindowLastTen ==
    fn = "_build_conversation_history" =>
        LET n == Len(arg)
            k == Min(n, 10)
            text == result.conversation_history
        IN IF n = 0
           THEN /\ text = <<>>
                /\ result.full_prompt = TurnPrompt
           ELSE /\ Len(text) = 1 + 8 * k
                /\ text[1] = "CONVERSATION SO FAR:"
                /\ \A j \in 1..k :
                      LET msg == arg[n - k + j]
                      IN WindowBlock(text, j) =
                           <<"\n", "\n", msg.agent_name, " (", msg.agent_role,
                             "):", "\n", msg.content>>
                /\ result.full_prompt = text \o <<"\n", "\n">> \o TurnPrompt

\* A window rendered from 12 messages: it starts with the third.
C13_Witness ==
    /\ fn = "_build_conversation_history"
    /\ Len(arg) = 12
    /\ WindowBlock(result.conversation_history, 1)[8] = "3"
    /\ WindowBlock(result.conversation_history, 10)[8] = "12"

\* The raw template loads as a mapping.
IsMapping(raw) == raw.yaml = "ok" /\ raw.doc.kind = "dict"

\* The raw template is a mapping whose agent mapping holds field f.
HasField(raw, f) ==
    /\ IsMapping(raw)
    /\ "agent" \in DOMAIN raw.doc.items
    /\ raw.doc.items["agent"].kind = "dict"
    /\ f \in DOMAIN raw.doc.items["agent"].items

\* The raw template is a mapping with the three required fields.
WellFormed(raw) == \A n \in 1..Len(RequiredFields) : HasField(raw, RequiredFields[n])

\* C15: validate never raises; it returns (true, none) exactly when parse
\* succeeds, and then the raw template is a mapping with agent.name, agent.role
\* and agent.system_prompt; otherwise it returns (false, message), and for a
\* mapping that lacks a required field the message names what is missing (the
\* agent section, or a field that is not there).
C15_ValidateTotal ==
    fn = "validate_prompt" =>
        /\ result.raised = "none"
        /\ result.value.is_valid <=> Parse(arg).raised = "none"
        /\ result.value.is_valid => WellFormed(arg)
        /\ result.value.is_valid => result.value.error = None
        /\ ~result.value.is_valid => result.value.error.kind = "str"
        /\ (IsMapping(arg) /\ ~WellFormed(arg)) =>
              \/ "Missing required 'agent' section" \in Range(result.value.error.text)
              \/ \E n \in 1..Len(RequiredFields) :
                    /\ ~HasField(arg, RequiredFields[n])
                    /\ FieldName[RequiredFields[n]] \in Range(result.value.error.text)

\* text[i..j] is a placeholder {{identifier}}.
IsPlaceholder(text, i, j) ==
    /\ i + 4 <= j
    /\ text[i] = "{" /\ text[i + 1] = "{"
    /\ text[j - 1] = "}" /\ text[j] = "}"
    /\ text[i + 2] \in IdStart
    /\ \A k \in (i + 3)..(j - 2) : text[k] \in IdChars

\* The placeholders of a text (no two of them overlap).
Placeholders(text) ==
    {sp \in {i \in 1..Len(text) : text[i] = "{"} \X {j \in 1..Len(text) : text[j] = "}"} :
        IsPlaceholder(text, sp[1], sp[2])}

PlaceholderName(text, sp) == SubSeq(text, sp[1] + 2, sp[2] - 2)

\* What index i of the text, whose placeholders are ph, contributes to the
\* substituted text.
Piece(text, ph, variables, i) ==
    IF \E sp \in ph : sp[1] = i
    THEN LET sp == CHOOSE q \in ph : q[1] = i
             name == PlaceholderName(text, sp)
         IN IF name \in DOMAIN variables THEN PyStr(variables[name])
            ELSE SubSeq(text, sp[1], sp[2])
    ELSE IF \E sp \in ph : sp[1] < i /\ i <= sp[2] THEN <<>>
    ELSE <<text[i]>>

\* The text with each placeholder replaced by its value when the context has
\* its name, and kept otherwise.
Substituted(text, variables) ==
    LET ph == Placeholders(text)
    IN Join([i \in 1..Len(text) |-> Piece(text, ph, variables, i)], <<>>)

\* C16: substitute replaces, in every string leaf of the parsed template, each
\* placeholder by the context's value when its name is a key and keeps it
\* otherwise; keys and other leaves are as they were; with the empty context
\* the result is the input.
C16_SubstituteLeaves ==
    fn = "substitute_variables" =>
        LET t == arg.raw_prompt
            c == arg.variables
            want == Str(Substituted(t, c))
            in_agent == PromptData(t).items["agent"].items
            out_agent == result.items["agent"].items
        IN /\ result.kind = "dict"
           /\ DOMAIN result.items = {"agent"}
           /\ DOMAIN out_agent = DOMAIN in_agent
           /\ out_agent["name"] = want
           /\ out_agent["system_prompt"] = want
           /\ out_agent["role"] = Str(<<"advisor">>)
           /\ out_agent["temperature"] = Num(7)
           /\ out_agent["tags"] = List(<<want, Num(3)>>)
           /\ "system_prompt_parsed" \in DOMAIN out_agent =>
                 /\ DOMAIN out_agent["system_prompt_parsed"].items = {"full_text"}
                 /\ out_agent["system_prompt_parsed"].items["full_text"] = want
           /\ DOMAIN c = {} => result = PromptData(t)

\* A template with a placeholder the context has, one it has not and a near
\* miss was substituted.
C16_Witness ==
    /\ fn = "substitute_variables"
    /\ arg.raw_prompt = <<"{", "{", "a", "}", "}", "{", "{", "b", "1", "}", "}",
                          "{", "{", "1", "}", "}">>
    /\ DOMAIN arg.variables = {<<"a">>}
    /\ result.items["agent"].items["system_prompt"].text =
          <<"X", "{", "{", "b", "1", "}", "}", "{", "{", "1", "}", "}">>

\* C17: substituting the substituted template again with the same context
\* changes nothing, whatever the context's values hold.
C17_SubstituteIdempotent ==
    fn = "resubstitute" => result.twice = result.once

\* C18: extractVariables returns the names of the placeholders of the text in
\* the order of their occurrence, one entry for each occurrence.
C18_ExtractInOrder ==
    fn = "extract_variables" =>
        LET t == arg.raw_prompt
            ph == Placeholders(t)
        IN /\ Len(result) = Cardinality(ph)
           /\ \A sp \in ph :
                 result[1 + Cardinality({q \in ph : q[1] < sp[1]})] =
                    PlaceholderName(t, sp)

\* A text with the same placeholder twice, around a near miss.
C18_Witness ==
    /\ fn = "extract_variables"
    /\ arg.raw_prompt = <<"{", "{", "a", "}", "}", "{", "{", "1", "}", "}",
                          "{", "{", "a", "}", "}">>
    /\ result = <<(<<"a">>), (<<"a">>)>>

\* The sections of the system prompt t that parse recognized.
Sections(t) ==
    LET agent == Parse(RawTemplateOf(t)).value.items["agent"].items
    IN IF "system_prompt_parsed" \in DOMAIN agent
       THEN [k \in DOMAIN agent["system_prompt_parsed"].items \ {"full_text"} |->
               agent["system_prompt_parsed"].items[k].text]
       ELSE <<>>

\* The header line of each section.
HeaderLine ==
    [persona |-> "PERSONA:", context |-> "CONTEXT:", behavior |-> "BEHAVIOR GUIDELINES:",
     constraints |-> "CONSTRAINTS:", examples |-> "EXAMPLES:",
     format |-> "RESPONSE FORMAT:"]

IsHeaderLine(token) == \E k \in DOMAIN HeaderLine : token = HeaderLine[k]

\* The header lines of the sections in sec, in the fixed order.
RECURSIVE HeadersOf(_, _)
HeadersOf(sec, n) ==
    IF n > 6 THEN <<>>
    ELSE (IF TagNames[n] \in DOMAIN sec THEN <<HeaderLine[TagNames[n]]>> ELSE <<>>)
            \o HeadersOf(sec, n + 1)

\* C19: formatSystemPrompt returns the system-prompt text as it is when no
\* section was recognized; otherwise the header lines of the result are those
\* of the recognized sections in the order persona, context, behavior,
\* constraints, examples, format, each followed at once by a newline and its
\* section; with persona alone the result is exactly "PERSONA:\n<content>".
C19_FormatSections ==
    fn = "format_system_prompt" =>
        LET sec == Sections(arg)
        IN IF DOMAIN sec = {}
           THEN result = Str(arg)
           ELSE /\ result.kind = "str"
                /\ SelectSeq(result.text, IsHeaderLine) = HeadersOf(sec, 1)
                /\ \A k \in DOMAIN sec : \A p \in 1..Len(result.text) :
                      result.text[p] = HeaderLine[k] =>
                         SubSeq(result.text, p + 1, p + 1 + Len(sec[k])) =
                            <<"\n">> \o sec[k]
                /\ DOMAIN sec = {"persona"} =>
                      result.text = <<"PERSONA:", "\n">> \o sec["persona"]

\* A system prompt with its format section written before its persona section.
C19_Witness ==
    /\ fn = "format_system_prompt"
    /\ arg = <<"<FORMAT>", "</format>", "<persona>", "advice", "</persona>">>
    /\ result.text = <<"PERSONA:", "\n", "advice", "\n", "\n", "RESPONSE FORMAT:", "\n">>

\* A system prompt with the persona section alone, blanks around its content.
C19_PersonaOnly ==
    /\ fn = "format_system_prompt"
    /\ arg = <<"<persona>", " ", "advice", " ", "</persona>">>
    /\ result.text = <<"PERSONA:", "\n", "advice">>

\* The template passes validation: validate returns (true, none).
PassesValidation(raw) ==
    ValidatePrompt(raw) = Return([is_valid |-> TRUE, error |-> None])

\* The request just handled was a create or an update carrying template raw.
Carried(raw) ==
    /\ fn' \in {"create_agent", "update_agent"}
    /\ "system_prompt_raw" \in DOMAIN arg'
    /\ arg'.system_prompt_raw = raw
    /\ <<fn, arg, result, db_agents, agent_prompt>>
          # <<fn', arg', result', db_agents', agent_prompt'>>

\* C20: every stored agent's template passes validation, and a create or
\* update request carrying a template that does not is answered 400 and leaves
\* the stored agents as they were.
C20_OnlyValidPersisted ==
    /\ [](\A a \in db_agents : PassesValidation(agent_prompt[a]))
    /\ [][\A raw \in RequestTemplates :
            (Carried(raw) /\ ~PassesValidation(raw)) =>
               /\ result'.status_code \in {400, 404}
               /\ db_agents' = db_agents
               /\ agent_prompt' = agent_prompt]_vars

\* An update of a stored agent with a template that lacks agent.role was
\* refused, next to an agent whose template was replaced by an update.
C20_Witness ==
    /\ fn = "update_agent"
    /\ "system_prompt_raw" \in DOMAIN arg
    /\ ~PassesValidation(arg.system_prompt_raw)
    /\ result.status_code = 400
    /\ Cardinality(db_agents) >= 2
    /\ \E a \in db_agents : agent_prompt[a] = RawTemplateOf(<<>>)

\* The steps of a run before its k-th that succeeded.
EarlierSuccesses(r, k) == {j \in 1..(k - 1) : calls[r][j].outcome = "ok"}

\* C21: the prompt of a step depends on its position only -- the introduction
\* for the first participant at turn 0, "the discussion has begun" for the
\* later participants at turn 0, the continuation at every later turn -- and
\* the conversation window is put in front of it exactly when an earlier step
\* of the run succeeded.
C21_PromptByPosition ==
    \A r \in Requests : \A k \in 1..Len(calls[r]) :
        LET c == calls[r][k]
            position == (k - 1) % Len(state[r].agents)
        IN /\ c.prompt =
                 (IF c.turn = 0 /\ position = 0
                  THEN "Please share your initial thoughts on this topic."
                  ELSE IF c.turn = 0
                  THEN "The discussion has begun. Please share your perspective."
                  ELSE "Based on the discussion so far, what are your thoughts?")
           /\ (c.history # <<>>) <=> (EarlierSuccesses(r, k) # {})
           /\ Len(c.history) = Cardinality(EarlierSuccesses(r, k))

\* The first step failed, and the second participant was told at turn 0 that
\* the discussion has begun, with no window; a later step got a window.
C21_Witness ==
    \E r \in Requests :
        /\ Len(calls[r]) >= 4
        /\ calls[r][1].outcome = "failed"
        /\ calls[r][2].prompt = "The discussion has begun. Please share your perspective."
        /\ calls[r][2].history = <<>>
        /\ calls[r][2].outcome = "ok"
        /\ calls[r][4].history # <<>>
        /\ calls[r][4].turn = 1

\* The participants of the run of r in the order the session declares them.
Declared(r) ==
    LET Resolved(a) == a \in Range(state[r].agents)
    IN SelectSeq(session.agent_ids, Resolved)

\* C22: within every turn the participants are called in the order in which
\* the session's participant list declares their ids, the same order at every
\* turn, whatever order the storage returned the agent rows in.
C22_DeclarationOrder ==
    \A r \in Requests :
        Activated(r) =>
            \A k \in 1..Len(calls[r]) :
                calls[r][k].agent_id =
                    Declared(r)[((k - 1) % Len(state[r].agents)) + 1]

\* C23: what a run does is fixed by its participants, its turn limit and the
\* outcomes of its calls, and by nothing else: under each of the three formats
\* the calls are the round-robin steps from the first one on, the turn events
\* are the successful ones among them, and the status is active inside the
\* turn loop and completed after its last step.
C23_FormatIgnored ==
    \A r \in Requests :
        Activated(r) =>
            LET ok == SelectSeq(calls[r], Succeeded)
                ev == TurnEvents(stream[r])
            IN /\ Len(calls[r]) >= 1
               /\ \A k \in 1..Len(calls[r]) :
                     /\ calls[r][k].agent_id = ExpectedAgent(r, k)
                     /\ calls[r][k].turn = ExpectedTurn(r, k)
                     /\ calls[r][k].prompt =
                           PromptFor(ExpectedTurn(r, k), (k - 1) % Len(state[r].agents))
               /\ ev = [k \in 1..Len(ok) |->
                           TurnEvent(ok[k].agent_id, ok[k].turn, ev[k].timestamp)]
               /\ pc[r] \in InTurnLoop =>
                     /\ session.status = "active"
                     /\ Len(calls[r]) <= Steps(r)
               /\ pc[r] \in {"summarizing", "summary_yielded", "done"} =>
                     /\ session.status = "completed"
                     /\ Len(calls[r]) = Steps(r)

\* A finished run requested as free_form, with a failed step among its
\* round-robin steps.
C23_Witness ==
    \E r \in Requests :
        /\ session.debate_format = "free_form"
        /\ Finished(r)
        /\ Len(calls[r]) = 4
        /\ calls[r][2].outcome = "failed"
        /\ Len(TurnEvents(stream[r])) = 3
        /\ session.status = "completed"

\* A run requested as moderated is inside its turn loop.
C23_Moderated ==
    \E r \in Requests :
        /\ session.debate_format = "moderated"
        /\ pc[r] = "sleeping"
        /\ Len(calls[r]) = 3

\* C24: a turn event is emitted only after its record is stored: the turn
\* events of a stream are, one for one and in order, the first records of the
\* transcript, with the same turn index and participant; and while the call of
\* a step is awaited the record of every earlier successful step is stored.
C24_PersistBeforeEmit ==
    \A r \in Single :
        LET ev == TurnEvents(stream[r])
            ok == SelectSeq(calls[r], Succeeded)
        IN /\ Len(ev) <= Len(db_messages)
           /\ \A k \in 1..Len(ev) :
                 /\ ev[k].agent_id = db_messages[k].agent_id
                 /\ ev[k].turn = db_messages[k].turn_number
           /\ pc[r] = "generating" =>
                 /\ Len(db_messages) = Len(ok)
                 /\ \A k \in 1..Len(ok) :
                       /\ db_messages[k].agent_id = ok[k].agent_id
                       /\ db_messages[k].turn_number = ok[k].turn

\* The record of the first step could not be stored and no event was emitted
\* for it; the second step was stored and emitted, and the third call is awaited.
C24_Witness ==
    \E r \in Single :
        /\ pc[r] = "generating"
        /\ Len(calls[r]) = 3
        /\ calls[r][1].outcome = "unsaved"
        /\ calls[r][2].outcome = "ok"
        /\ Len(db_messages) = 1
        /\ Len(TurnEvents(stream[r])) = 1

\* C25: the summary step runs once, after the last step of the turn loop and
\* before the session is marked completed: whenever the session is completed,
\* the summary step of its run has run (generate_debate_summary has returned),
\* and it issues at most one call.
C25_SummaryBeforeCompleted ==
    \A r \in Single :
        /\ summary_calls[r] <= 1
        /\ session.status = "completed" => summary[r] # <<>>

Outstanding(c) == c.outcome = "pending"

\* C26: a run has at most one generation call outstanding, and it is the one
\* issued last; when the call of a step is awaited, every earlier call has
\* returned or raised and has been handled to the end -- each success has its
\* message in memory, its record, its event and its pause.
C26_OneCallAtATime ==
    \A r \in Requests :
        LET ok == SelectSeq(calls[r], Succeeded)
        IN /\ Len(SelectSeq(calls[r], Outstanding)) <= 1
           /\ \A k \in 1..(Len(calls[r]) - 1) : ~Outstanding(calls[r][k])
           /\ pc[r] = "generating" =>
                 /\ Outstanding(calls[r][Len(calls[r])])
                 /\ Len(state[r].messages) = Len(ok)
                 /\ Len(db_messages) = Len(ok)
                 /\ Len(TurnEvents(stream[r])) = Len(ok)
                 /\ pauses[r] = Len(ok)
           /\ pc[r] \in {"yielded", "sleeping", "summarizing", "summary_yielded", "done"}
                 => Len(SelectSeq(calls[r], Outstanding)) = 0

\* The sixth call of a run is awaited after successes and a failure.
C26_Witness ==
    \E r \in Requests :
        /\ pc[r] = "generating"
        /\ Len(calls[r]) = 6
        /\ calls[r][2].outcome = "failed"
        /\ calls[r][5].outcome = "ok"
        /\ calls[r][6].outcome = "pending"

\* The requests whose run has issued a generation call.
Drivers == {r \in Requests : calls[r] # <<>>}

\* C27: of two start requests for the same pending session at most one runs
\* the turn loop: at most one of them issues generation calls, the transcript
\* holds no two records of the same (turn, participant) pair, and the status
\* never goes from completed back to active.
C27_SingleDriver ==
    /\ [](/\ Cardinality(Drivers) <= 1
          /\ \A i \in 1..Len(db_messages) : \A j \in (i + 1)..Len(db_messages) :
                <<db_messages[i].turn_number, db_messages[i].agent_id>> #
                <<db_messages[j].turn_number, db_messages[j].agent_id>>)
    /\ [][~(session.status = "completed" /\ session'.status = "active")]_vars

\* The contributions a list of messages, of records or of events describes.
Contributions(list) ==
    [k \in 1..Len(list) |->
        <<(IF "turn" \in DOMAIN list[k] THEN list[k].turn ELSE list[k].turn_number),
          list[k].agent_id>>]

\* C28: in every state of a run the messages in memory that the window is built
\* from, the stored transcript and the emitted turn events describe the same
\* contributions in the same order, also when the storing of a record fails
\* after its generation call succeeded.
C28_ThreeViewsAgree ==
    \A r \in Single :
        /\ Contributions(state[r].messages) = Contributions(db_messages)
        /\ Contributions(db_messages) = Contributions(TurnEvents(stream[r]))
        /\ \A k \in 1..Len(calls[r]) :
              Len(calls[r][k].history) <= Len(db_messages)

\* The participants of the session that exist.
Participants == Range(session.agent_ids) \cap db_agents

\* The setup of a run of the session has to fail: a participant's stored
\* template does not parse, or its provider tag is not gemini or ollama in
\* some letter case, or the format is not one of the three.
SetupMustFail ==
    \/ \E a \in Participants : Parse(agent_prompt[a]).raised # "none"
    \/ \E a \in Participants :
          agent_provider[a] \notin {"gemini", "Gemini", "ollama", "Ollama"}
    \/ session.debate_format \notin {"turn_based", "moderated", "free_form"}

\* C29: when the setup of a run fails -- a template that does not parse, an
\* unsupported provider, an unknown format -- the session stays pending with no
\* start time, no call is made, nothing is stored, and the consumed stream is
\* one error event with no complete event.
C29_SetupFailureLeavesPending ==
    SetupMustFail =>
        /\ session.status = "pending"
        /\ session.started_at = NullTime
        /\ session.completed_at = NullTime
        /\ db_messages = <<>>
        /\ \A r \in Requests :
              /\ calls[r] = <<>>
              /\ summary_calls[r] = 0
              /\ Count(stream[r], "complete") = 0
              /\ pc[r] \in {"idle", "accepted", "cancelled", "done"}
              /\ Finished(r) => /\ Len(stream[r]) = 1
                                /\ Kind(stream[r][1]) = "error"

\* The stream of a run whose second participant has a template that does not
\* load was consumed: one error event.
C29_Witness ==
    \E r \in Requests :
        /\ Parse(agent_prompt[1]).raised = "none"
        /\ Parse(agent_prompt[2]).raised # "none"
        /\ Finished(r)
        /\ stream[r] = <<ErrorEvent("template does not parse")>>
        /\ session.status = "pending"

\* The same for an unknown provider, and for an unknown format.
C29_Provider ==
    \E r \in Requests :
        /\ Finished(r)
        /\ stream[r] = <<ErrorEvent("Unsupported provider")>>
        /\ session.status = "pending"

C29_Format ==
    \E r \in Requests :
        /\ Finished(r)
        /\ stream[r] = <<ErrorEvent("not a valid DebateFormat")>>
        /\ session.status = "pending"

\* C30: in a run of N participants and T turns the transcript never holds two
\* records of the same (turn, participant) pair, every record is of a
\* participant at a turn index in 0..T-1, the turn indexes never decrease
\* along the transcript, and once the session is completed every one of the
\* N*T steps has been attempted.
C30_TranscriptShape ==
    \A r \in Single :
        /\ ~Activated(r) => db_messages = <<>>
        /\ Activated(r) =>
              /\ \A i \in 1..Len(db_messages) :
                    /\ db_messages[i].turn_number \in 0..(session.max_turns - 1)
                    /\ db_messages[i].agent_id \in Range(state[r].agents)
                    /\ \A j \in (i + 1)..Len(db_messages) :
                          /\ db_messages[i].turn_number <= db_messages[j].turn_number
                          /\ <<db_messages[i].turn_number, db_messages[i].agent_id>> #
                             <<db_messages[j].turn_number, db_messages[j].agent_id>>
              /\ Len(db_messages) <= Steps(r)
              /\ session.status = "completed" =>
                    /\ Len(calls[r]) = Steps(r)
                    /\ \A k \in 1..Len(calls[r]) : ~Outstanding(calls[r][k])
                    /\ {<<calls[r][k].turn, calls[r][k].agent_id>> : k \in 1..Len(calls[r])}
                          = (0..(session.max_turns - 1)) \X Range(state[r].agents)

\* A completed session of 3 participants and 2 turns with 5 records: one step
\* of the second turn failed.
C30_Witness ==
    \E r \in Single :
        /\ session.status = "completed"
        /\ Len(state[r].agents) = 3
        /\ session.max_turns = 2
        /\ Len(db_messages) = 5
        /\ calls[r][5].outcome = "failed"

====
